---- MODULE Spec2Model ----
(***************************************************************************)
(* ProductVariantCreate (saleor/graphql/product/mutations/product_variant/ *)
(* product_variant_create.py): the clean phase, the atomic persist phase   *)
(* and the post-persist step of the variant mutation, over a small store.  *)
(***************************************************************************)
EXTENDS Integers, Sequences, FiniteSets, TLC

VARIABLES
    db,              \* the relational store: variants, default links, stocks, ...
    events,          \* plugin-manager events emitted by the last run
    dirty_channels,  \* channels whose promotion rules were marked dirty
    last,            \* outcome of the last run of the mutation
    runs,            \* number of runs so far
    request,         \* the request in flight (RequestSpec), NoRequest otherwise
    first_saved      \* history: per product, the first variant saved for it

vars == <<db, events, dirty_channels, last, runs, request, first_saved>>

-----------------------------------------------------------------------------
(* Bounds of the model.                                                    *)

MaxRuns == 3

MaxStocks == 2

MaxAttributes == 2

-----------------------------------------------------------------------------
(* The catalogue the mutation works on.                                    *)

None == "None"

Products == {"p1", "p2", "p3"}

\* graphene.Node.to_global_id(type, pk): the id a caller submits for a row
to_global_id(type, pk) == <<type, pk>>

\* attribute ids a request may submit: attribute 1 (a variant attribute of
\* both product types), attribute 3 (of neither) and an id of another type
AttributeIds == {to_global_id("Attribute", 1), to_global_id("Attribute", 3),
                 to_global_id("Product", 1)}

\* warehouses that exist
Warehouses == {"w1", "w2"}

\* warehouse ids a request may name; "wX" resolves to no warehouse
WarehouseIds == {"w1", "wX"}

\* product.product_type.has_variants: p1 and p3 are configurable, p2 is not
has_variants(product) == product \in {"p1", "p3"}

\* pks of product_type.variant_attributes.all()
variant_attributes(product) == IF product = "p1" THEN {1, 2} ELSE {1}

\* pks of product_type.variant_attributes.filter(value_required=True)
value_required(product) == IF product = "p3" THEN {} ELSE {1}

\* channel ids of the ProductChannelListing rows of the product
channel_listings(product) ==
    CASE product = "p1" -> {"c1", "c2"}
      [] product = "p2" -> {"c1"}
      [] OTHER -> {}

\* an optional input field is <<>> when not given and <<v>> when given

SeqsUpTo(S, n) == UNION {[1..k -> S] : k \in 0..n}

Range(s) == {s[i] : i \in DOMAIN s}

-----------------------------------------------------------------------------
(* Validation errors.                                                      *)

NoError == [field |-> "", code |-> "", params |-> {}]

\* ValidationError({field: ValidationError(message, code=code)})
FieldError(field, code, params) == [field |-> field, code |-> code, params |-> params]

\* ValidationError(message, code=code): no field
NON_FIELD == "__all__"

-----------------------------------------------------------------------------
(* The clean phase.  A request's data is the record                        *)
(*   [product, weight, quantity_limit, stocks, attributes, attr_check,     *)
(*    sku, preorder, name, track_inventory]                                *)
(* and its instance is 0 (no pk yet) or the pk of an existing variant.     *)

\* cleaner.clean_weight: a weight, when given, is not negative
clean_weight(cleaned_input) ==
    IF cleaned_input.weight # <<>> /\ cleaned_input.weight[1] < 0
    THEN FieldError("weight", "INVALID", {})
    ELSE NoError

\* cleaner.clean_quantity_limit: a limit, when given, is at least 1
clean_quantity_limit(cleaned_input) ==
    IF cleaned_input.quantity_limit # <<>> /\ cleaned_input.quantity_limit[1] < 1
    THEN FieldError("quantity_limit_per_customer", "INVALID", {})
    ELSE NoError

\* cleaner.clean_preorder_settings: an end date, when given, lies after now (0)
clean_preorder_settings(cleaned_input) ==
    IF cleaned_input.preorder # <<>> /\ cleaned_input.preorder[1] <= 0
    THEN FieldError("preorder_end_date", "INVALID", {})
    ELSE NoError

\* clean_variant_sku: the sku stripped; an empty one becomes None
clean_variant_sku(sku) ==
    CASE sku = "" -> None
      [] sku = " " -> None
      [] sku = " s1 " -> "s1"
      [] OTHER -> sku

\* get_duplicated_values: the values that occur more than once
get_duplicated_values(values) ==
    {v \in Range(values) : Cardinality({i \in DOMAIN values : values[i] = v}) > 1}

\* mutant: the duplicates are found and no error is raised
check_for_duplicates_not_raised(stocks_data) == NoError

check_for_duplicates_in_stocks(stocks_data) ==
    LET duplicates == get_duplicated_values(stocks_data)
    IN  IF duplicates # {}
        THEN FieldError("stocks", "UNIQUE", duplicates)
        ELSE NoError

\* mutant: an empty product is reported as a missing value
get_product_required(cleaned_input) ==
    IF cleaned_input.product = None
    THEN FieldError("product", "REQUIRED", {})
    ELSE NoError

\* the error get_product raises, if any
get_product(cleaned_input) ==
    IF cleaned_input.product = None
    THEN FieldError("product", "INVALID", {})
    ELSE NoError

\* AttributeAssignmentMixin.clean_input followed by
\* cleaner.validate_duplicated_attribute_values, wrapped under "attributes";
\* attr_check is the verdict of these two on the submitted values
clean_attribute_values(cleaned_input) ==
    CASE cleaned_input.attr_check = "invalid_value" ->
            FieldError("attributes", "INVALID", {})
      [] cleaned_input.attr_check = "duplicated" ->
            FieldError("attributes", "DUPLICATED_INPUT_ITEM", {})
      [] OTHER -> NoError

variant_attributes_ids(product) ==
    {to_global_id("Attribute", attr_id) : attr_id \in variant_attributes(product)}

\* mutant: the difference is taken the other way round
invalid_attributes_reversed(cleaned_input) ==
    variant_attributes_ids(cleaned_input.product) \ Range(cleaned_input.attributes)

invalid_attributes(cleaned_input) ==
    Range(cleaned_input.attributes) \ variant_attributes_ids(cleaned_input.product)

\* mutant: a product type without variants takes attributes
clean_attributes_variantless_unchecked(cleaned_input, instance) ==
    IF get_product(cleaned_input) # NoError THEN get_product(cleaned_input)
    ELSE IF invalid_attributes(cleaned_input) # {}
    THEN FieldError(NON_FIELD, "ATTRIBUTE_CANNOT_BE_ASSIGNED",
                    invalid_attributes(cleaned_input))
    ELSE IF has_variants(cleaned_input.product)
    THEN IF cleaned_input.attributes # <<>>
         THEN clean_attribute_values(cleaned_input)
         ELSE IF value_required(cleaned_input.product) # {}
         THEN FieldError("attributes", "REQUIRED", {})
         ELSE NoError
    ELSE NoError

\* mutant: required attributes are asked of a new variant only
clean_attributes_required_on_creation(cleaned_input, instance) ==
    IF get_product(cleaned_input) # NoError THEN get_product(cleaned_input)
    ELSE IF invalid_attributes(cleaned_input) # {}
    THEN FieldError(NON_FIELD, "ATTRIBUTE_CANNOT_BE_ASSIGNED",
                    invalid_attributes(cleaned_input))
    ELSE IF has_variants(cleaned_input.product)
    THEN IF cleaned_input.attributes # <<>>
         THEN clean_attribute_values(cleaned_input)
         ELSE IF value_required(cleaned_input.product) # {} /\ instance.pk = 0
         THEN FieldError("attributes", "REQUIRED", {})
         ELSE NoError
    ELSE IF cleaned_input.attributes # <<>>
         THEN FieldError(NON_FIELD, "INVALID", {})
         ELSE NoError

\* the error clean_attributes raises, if any (instance is not consulted)
clean_attributes(cleaned_input, instance) ==
    IF get_product(cleaned_input) # NoError THEN get_product(cleaned_input)
    ELSE IF invalid_attributes(cleaned_input) # {}
    THEN FieldError(NON_FIELD, "ATTRIBUTE_CANNOT_BE_ASSIGNED",
                    invalid_attributes(cleaned_input))
    ELSE IF has_variants(cleaned_input.product)
    THEN IF cleaned_input.attributes # <<>>
         THEN clean_attribute_values(cleaned_input)
         ELSE IF value_required(cleaned_input.product) # {}
         THEN FieldError("attributes", "REQUIRED", {})
         ELSE NoError
    ELSE IF cleaned_input.attributes # <<>>
         THEN FieldError(NON_FIELD, "INVALID", {})
         ELSE NoError

\* mutant: the attributes are cleaned before the stocks are checked
CleanOrder_attributes_first ==
    <<"weight", "quantity_limit", "attributes", "stocks", "sku", "preorder">>

\* the statements of clean_input, in the order they run
CleanOrder == <<"weight", "quantity_limit", "stocks", "attributes", "sku", "preorder">>

\* the error one statement of clean_input raises on its own, if any
CheckError(check, cleaned_input, instance) ==
    CASE check = "weight" -> clean_weight(cleaned_input)
      [] check = "quantity_limit" -> clean_quantity_limit(cleaned_input)
      [] check = "stocks" ->
            IF cleaned_input.stocks # <<>>
            THEN check_for_duplicates_in_stocks(cleaned_input.stocks)
            ELSE NoError
      [] check = "attributes" -> clean_attributes(cleaned_input, instance)
      [] check = "sku" -> NoError
      [] check = "preorder" -> clean_preorder_settings(cleaned_input)

RECURSIVE RunChecks(_, _, _, _)
\* statements order[i..] run one after the other; the first raise ends the run
RunChecks(order, i, cleaned_input, instance) ==
    IF i > Len(order)
    THEN [error |-> NoError, evaluated |-> <<>>]
    ELSE LET e == CheckError(order[i], cleaned_input, instance)
         IN  IF e # NoError
             THEN [error |-> e, evaluated |-> <<order[i]>>]
             ELSE LET rest == RunChecks(order, i + 1, cleaned_input, instance)
                  IN  [error |-> rest.error,
                       evaluated |-> <<order[i]>> \o rest.evaluated]

\* clean_input: the error raised (NoError when it returns), the statements
\* that ran, and the cleaned input it returns
clean_input(instance, data) ==
    LET r == RunChecks(CleanOrder, 1, data, instance)
    IN  [error |-> r.error,
         evaluated |-> r.evaluated,
         cleaned_input |->
            IF r.error = NoError /\ data.sku # <<>>
            THEN [data EXCEPT !.sku = <<clean_variant_sku(data.sku[1])>>]
            ELSE data]

-----------------------------------------------------------------------------
(* The store and the instance.                                             *)

EmptyDb ==
    [variants |-> <<>>,
     default_variant |-> [p \in Products |-> 0],
     search_index_dirty |-> [p \in Products |-> FALSE],
     stocks |-> {},
     attribute_links |-> {}]

\* Shop.trackInventoryByDefault, as get_track_inventory_by_default reads it
track_inventory_by_default == <<TRUE>>

\* get_instance: a fresh ProductVariant (pk None, here 0) or the stored row
get_instance(d, pk) ==
    IF pk = 0
    THEN [pk |-> 0, product |-> None, name |-> <<>>, sku |-> None,
          track_inventory |-> TRUE]
    ELSE [pk |-> pk, product |-> d.variants[pk].product,
          name |-> d.variants[pk].name, sku |-> d.variants[pk].sku,
          track_inventory |-> d.variants[pk].track_inventory]

\* construct_instance: the fields the cleaned input gives are set on the instance
construct_instance(instance, cleaned_input) ==
    [instance EXCEPT
        !.product = cleaned_input.product,
        !.name = IF cleaned_input.name # <<>>
                 THEN <<"given", cleaned_input.name[1]>> ELSE @,
        !.sku = IF cleaned_input.sku # <<>> THEN cleaned_input.sku[1] ELSE @]

set_track_inventory(instance, cleaned_input) ==
    IF track_inventory_by_default # <<>>
    THEN [instance EXCEPT !.track_inventory =
            IF cleaned_input.track_inventory = <<>>
            THEN track_inventory_by_default[1]
            ELSE cleaned_input.track_inventory[1]]
    ELSE instance

-----------------------------------------------------------------------------
(* The persist phase: the writes of save, one per statement.               *)

\* the pk the instance has once instance.save() has run
saved_pk(d, instance) == IF instance.pk = 0 THEN Len(d.variants) + 1 ELSE instance.pk

Row(instance) ==
    [product |-> instance.product, name |-> instance.name, sku |-> instance.sku,
     track_inventory |-> instance.track_inventory]

\* instance.save(): insert the row when pk is None, update it otherwise
instance_save(d, instance) ==
    IF instance.pk = 0
    THEN [d EXCEPT !.variants = Append(@, Row(instance))]
    ELSE [d EXCEPT !.variants[instance.pk] = Row(instance)]

\* mutant: the default variant is set by every save
set_default_variant_always(d, product, pk) ==
    [d EXCEPT !.default_variant[product] = pk]

\* if not instance.product.default_variant: ... product.save(default_variant)
set_default_variant(d, product, pk) ==
    IF d.default_variant[product] = 0
    THEN [d EXCEPT !.default_variant[product] = pk]
    ELSE d

\* get_nodes_or_error: the warehouse ids that name no warehouse
unresolved_warehouses(stocks) == Range(stocks) \ Warehouses

\* create_variant_stocks: one stock row per (variant, warehouse)
create_variant_stocks(d, pk, stocks) ==
    [d EXCEPT !.stocks = @ \cup {<<pk, stocks[i]>> : i \in DOMAIN stocks}]

\* AttributeAssignmentMixin.save: the attribute links of the variant
attribute_assignment_save(d, pk, attributes) ==
    [d EXCEPT !.attribute_links = @ \cup {<<pk, a>> : a \in Range(attributes)}]

\* generate_and_set_variant_name: a name derived from the attribute values
\* of the variant and its sku
generate_and_set_variant_name(d, pk, sku) ==
    [d EXCEPT !.variants[pk].name =
        <<"derived", IF sku = <<>> THEN None ELSE sku[1],
          {l[2] : l \in {x \in d.attribute_links : x[1] = pk}}>>]

\* instance.product.search_index_dirty = True; product.save(search_index_dirty)
set_search_index_dirty(d, product) ==
    [d EXCEPT !.search_index_dirty[product] = TRUE]

\* mutant: post_save_action is called inside the atomic block
SaveSteps_with_post_save ==
    <<"variant", "default_variant", "stocks", "attributes", "name",
      "search_index", "event", "post_save">>

\* the statements of the atomic block of save, in the order they run
SaveSteps ==
    <<"variant", "default_variant", "stocks", "attributes", "name",
      "search_index", "event">>

\* whether a statement of the atomic block writes to the store (and so may
\* fail there) for this instance and input
StepRuns(step, d, instance, cleaned_input) ==
    CASE step = "default_variant" -> d.default_variant[instance.product] = 0
      [] step = "stocks" -> cleaned_input.stocks # <<>>
      [] step = "attributes" -> cleaned_input.attributes # <<>>
      [] step = "name" -> instance.name = <<>>
      [] OTHER -> TRUE

\* the store after the first k statements of the atomic block
RECURSIVE AfterSteps(_, _, _, _)
AfterSteps(k, d, instance, cleaned_input) ==
    IF k = 0 THEN d
    ELSE LET prev == AfterSteps(k - 1, d, instance, cleaned_input)
             step == SaveSteps[k]
             pk == saved_pk(d, instance)
         IN  CASE step = "variant" -> instance_save(prev, instance)
               [] step = "default_variant" ->
                     set_default_variant(prev, instance.product, pk)
               [] step = "stocks" ->
                     IF cleaned_input.stocks # <<>>
                     THEN create_variant_stocks(prev, pk, cleaned_input.stocks)
                     ELSE prev
               [] step = "attributes" ->
                     IF cleaned_input.attributes # <<>>
                     THEN attribute_assignment_save(prev, pk, cleaned_input.attributes)
                     ELSE prev
               [] step = "name" ->
                     IF instance.name = <<>>
                     THEN generate_and_set_variant_name(prev, pk, cleaned_input.sku)
                     ELSE prev
               [] step = "search_index" ->
                     set_search_index_dirty(prev, instance.product)
               [] OTHER -> prev

\* whether statement k of the atomic block raises: the store fails there
\* (fail_at), or a stock names a warehouse that cannot be resolved
StepFails(k, d, instance, cleaned_input, fail_at) ==
    /\ StepRuns(SaveSteps[k], d, instance, cleaned_input)
    /\ \/ fail_at = SaveSteps[k]
       \/ SaveSteps[k] = "stocks" /\ unresolved_warehouses(cleaned_input.stocks) # {}

\* the statements of the atomic block that raise, were they reached
FailingSteps(d, instance, cleaned_input, fail_at) ==
    {k \in DOMAIN SaveSteps : StepFails(k, d, instance, cleaned_input, fail_at)}

Min(S) == CHOOSE x \in S : \A y \in S : x <= y

\* mutant: instance.save() is called before the atomic block is entered
BlockEntry_after_instance_save == "default_variant"

\* the first statement inside "with traced_atomic_transaction():"
BlockEntry == "variant"

\* traced_atomic_transaction: what the store holds when the block is left;
\* a block left by an exception is rolled back to what it held at entry
traced_atomic_transaction(before, inside, raised) ==
    IF raised THEN before ELSE inside

\* mutant: the two events are taken for each other
event_to_call_swapped(new_variant) ==
    IF new_variant THEN "product_variant_updated" ELSE "product_variant_created"

\* event_to_call: product_variant_created for a new variant,
\* product_variant_updated otherwise
event_to_call(new_variant) ==
    IF new_variant THEN "product_variant_created" ELSE "product_variant_updated"

\* save: the store, the events emitted and the error raised, if any
save(d, instance, cleaned_input, fail_at) ==
    LET failing == FailingSteps(d, instance, cleaned_input, fail_at)
        raised == failing # {}
        reached == IF raised THEN Min(failing) - 1 ELSE Len(SaveSteps)
        inside == AfterSteps(reached, d, instance, cleaned_input)
        entry == CHOOSE k \in DOMAIN SaveSteps : SaveSteps[k] = BlockEntry
        before == AfterSteps(entry - 1, d, instance, cleaned_input)
        new_variant == instance.pk = 0
        pk == saved_pk(d, instance)
    IN  [ok |-> ~raised,
         db |-> IF reached < entry - 1 THEN inside
                ELSE traced_atomic_transaction(before, inside, raised),
         events |-> IF raised THEN <<>> ELSE << <<event_to_call(new_variant), pk>> >>,
         error |-> IF ~raised THEN NoError
                   ELSE IF SaveSteps[Min(failing)] = "stocks" /\ fail_at # "stocks"
                   THEN FieldError("warehouse", "NOT_FOUND",
                                   unresolved_warehouses(cleaned_input.stocks))
                   ELSE FieldError(NON_FIELD, "STORE_FAILURE", {})]

\* post_save_action: the channels of the product are marked dirty, unless
\* the scheduling fails; the store is not written
post_save_action(dirty, product, fail_at) ==
    IF fail_at = "post_save"
    THEN [ok |-> FALSE, dirty_channels |-> dirty]
    ELSE [ok |-> TRUE, dirty_channels |-> dirty \cup channel_listings(product)]

-----------------------------------------------------------------------------
(* One run of the mutation: clean, construct, save, post-save.             *)

Idle ==
    [stage |-> "idle", error |-> NoError, evaluated |-> <<>>,
     new_variant |-> FALSE, pk |-> 0]

\* perform_mutation: get_instance, clean_input, construct_instance, save,
\* post_save_action; a raise ends the run where it happens
perform_mutation(d, dirty, req) ==
    LET instance == get_instance(d, req.instance)
        cleaned == clean_input(instance, req.data)
        constructed ==
            set_track_inventory(
                construct_instance(instance, cleaned.cleaned_input),
                cleaned.cleaned_input)
        saved == save(d, constructed, cleaned.cleaned_input, req.fail_at)
        post == post_save_action(dirty, constructed.product, req.fail_at)
    IN  IF cleaned.error # NoError
        THEN [db |-> d, events |-> <<>>, dirty_channels |-> dirty,
              last |-> [stage |-> "clean_failed", error |-> cleaned.error,
                        evaluated |-> cleaned.evaluated,
                        new_variant |-> instance.pk = 0, pk |-> instance.pk]]
        ELSE IF ~saved.ok
        THEN [db |-> saved.db, events |-> saved.events, dirty_channels |-> dirty,
              last |-> [stage |-> "persist_failed", error |-> saved.error,
                        evaluated |-> cleaned.evaluated,
                        new_variant |-> instance.pk = 0, pk |-> instance.pk]]
        ELSE [db |-> saved.db, events |-> saved.events,
              dirty_channels |-> post.dirty_channels,
              last |-> [stage |-> IF post.ok THEN "done" ELSE "post_failed",
                        error |-> NoError,
                        evaluated |-> cleaned.evaluated,
                        new_variant |-> instance.pk = 0,
                        pk |-> saved_pk(d, constructed)]]

\* where a run may fail past the clean phase: a statement of the atomic
\* block, the post-save step, or nowhere
FailPoints == Range(SaveSteps) \cup {"post_save", "none"}

\* a run that the clean phase ends reaches no fail point
ReachableFailPoints(d, instance, data) ==
    IF clean_input(get_instance(d, instance), data).error # NoError
    THEN {"none"}
    ELSE FailPoints

NoRequest == [instance |-> 0, data |-> <<>>, fail_at |-> "none"]

A1 == to_global_id("Attribute", 1)

\* requests of the multi-run specification
RunData ==
    [product : {"p1", "p2", None},
     weight : {<<>>, <<-1>>},
     quantity_limit : {<<>>},
     stocks : {<<>>, <<"w1">>, <<"wX">>},
     attributes : {<<>>, <<A1>>},
     attr_check : {"ok"},
     sku : {<<"s1">>},
     preorder : {<<>>},
     name : {<<>>},
     track_inventory : {<<>>}]

\* requests that vary what the clean phase reads
CleanData ==
    [product : Products \cup {None},
     weight : {<<>>, <<-1>>},
     quantity_limit : {<<>>, <<0>>},
     stocks : SeqsUpTo(WarehouseIds, MaxStocks),
     attributes : SeqsUpTo(AttributeIds, MaxAttributes),
     attr_check : {"ok", "invalid_value", "duplicated"},
     sku : {<<>>, <<" s1 ">>},
     preorder : {<<>>, <<-1>>},
     name : {<<>>},
     track_inventory : {<<>>}]

\* requests that vary what the persist phase reads
PersistData ==
    [product : Products \cup {None},
     weight : {<<>>, <<1>>},
     quantity_limit : {<<1>>},
     stocks : SeqsUpTo(WarehouseIds, MaxStocks),
     attributes : SeqsUpTo({A1}, MaxAttributes),
     attr_check : {"ok"},
     sku : {<<>>, <<" s1 ">>},
     preorder : {<<1>>},
     name : {<<>>, <<"n1">>},
     track_inventory : {<<>>, <<FALSE>>}]

\* a store holding one saved variant of p1, its default variant
OneVariantDb ==
    save(EmptyDb,
         [pk |-> 0, product |-> "p1", name |-> <<>>, sku |-> "s1",
          track_inventory |-> TRUE],
         [product |-> "p1", weight |-> <<>>, quantity_limit |-> <<>>,
          stocks |-> <<"w1">>, attributes |-> <<A1>>, attr_check |-> "ok",
          sku |-> <<"s1">>, preorder |-> <<>>, name |-> <<>>,
          track_inventory |-> <<>>],
         "none").db

Requests(d) ==
    [instance : 0..Len(d.variants), data : CleanData, fail_at : {"none"}]
    \cup {r \in [instance : 0..Len(d.variants), data : PersistData,
                  fail_at : FailPoints] :
            r.fail_at \in ReachableFailPoints(d, r.instance, r.data)}

-----------------------------------------------------------------------------
(* Specifications.                                                         *)

\* whether the outcome of a run is a committed save
Saved(outcome) == outcome.last.stage \in {"done", "post_failed"}

\* the history after a run: a product's entry is set by the first save of
\* a variant of that product
FirstSaved(history, outcome) ==
    IF Saved(outcome)
    THEN LET pk == outcome.last.pk
             product == outcome.db.variants[pk].product
         IN  IF history[product] = 0
             THEN [history EXCEPT ![product] = pk]
             ELSE history
    ELSE history

Init ==
    /\ db = EmptyDb
    /\ events = <<>>
    /\ dirty_channels = {}
    /\ last = Idle
    /\ runs = 0
    /\ request = NoRequest
    /\ first_saved = [p \in Products |-> 0]

\* one run of the mutation on a request drawn here
Mutate ==
    /\ runs < MaxRuns
    /\ \E instance \in 0..Len(db.variants), data \in RunData :
        \E fail_at \in ReachableFailPoints(db, instance, data) :
          \E r \in {perform_mutation(db, dirty_channels,
                     [instance |-> instance, data |-> data, fail_at |-> fail_at])} :
              /\ db' = r.db
              /\ events' = r.events
              /\ dirty_channels' = r.dirty_channels
              /\ last' = r.last
              /\ first_saved' = FirstSaved(first_saved, r)
    /\ runs' = runs + 1
    /\ UNCHANGED request

Next == Mutate

Spec == Init /\ [][Next]_vars

\* a store with a request in flight
RequestInit ==
    /\ db \in {EmptyDb, OneVariantDb}
    /\ events = <<>>
    /\ dirty_channels = {}
    /\ last = Idle
    /\ runs = 0
    /\ request \in Requests(db)
    /\ first_saved = db.default_variant

\* the run of the mutation on the request in flight
HandleRequest ==
    /\ runs = 0
    /\ \E r \in {perform_mutation(db, dirty_channels, request)} :
           /\ db' = r.db
           /\ events' = r.events
           /\ dirty_channels' = r.dirty_channels
           /\ last' = r.last
           /\ first_saved' = FirstSaved(first_saved, r)
    /\ runs' = 1
    /\ UNCHANGED request

RequestNext == HandleRequest

RequestSpec == RequestInit /\ [][RequestNext]_vars

-----------------------------------------------------------------------------
(* What the claims speak of, stated on the request in flight.              *)

\* the run of the request in flight is over
Handled == runs = 1

data == request.data

ErrKey(e) == <<e.field, e.code>>

\* the order of the checks as the specification lists them
ClaimedOrder == <<"weight", "quantity_limit", "stocks", "attributes", "sku", "preorder">>

DuplicateWarehouse(stocks) ==
    \E i, j \in DOMAIN stocks : i # j /\ stocks[i] = stocks[j]

\* submitted ids that are not ids of variant attributes of the product type
OffendingIds(dt) ==
    {id \in Range(dt.attributes) :
        ~(id[1] = "Attribute" /\ id[2] \in variant_attributes(dt.product))}

\* the rule a check of the clean phase enforces is broken by the data
RuleBroken(check, dt) ==
    CASE check = "weight" -> dt.weight # <<>> /\ dt.weight[1] < 0
      [] check = "quantity_limit" ->
            dt.quantity_limit # <<>> /\ dt.quantity_limit[1] < 1
      [] check = "stocks" -> DuplicateWarehouse(dt.stocks)
      [] check = "attributes" ->
            \/ dt.product = None
            \/ OffendingIds(dt) # {}
            \/ /\ has_variants(dt.product)
               /\ IF dt.attributes = <<>>
                  THEN value_required(dt.product) # {}
                  ELSE dt.attr_check # "ok"
            \/ ~has_variants(dt.product) /\ dt.attributes # <<>>
      [] check = "sku" -> FALSE
      [] check = "preorder" -> dt.preorder # <<>> /\ dt.preorder[1] <= 0

BrokenRules(dt) == {i \in DOMAIN ClaimedOrder : RuleBroken(ClaimedOrder[i], dt)}

\* the checks that run before attribute validation pass
EarlierChecksPass(dt) ==
    \A i \in BrokenRules(dt) : ClaimedOrder[i] \notin {"weight", "quantity_limit", "stocks"}

-----------------------------------------------------------------------------
(* C5: an input that breaks several rules.                                 *)

\* C5 as stated: when an input breaks several validation rules at once, the
\* clean phase reports every one of the violations in one response.
C5_AllViolationsReported ==
    Handled /\ Cardinality(BrokenRules(data)) >= 2 =>
        \A i \in BrokenRules(data) :
            ErrKey(last.error) =
                ErrKey(CheckError(ClaimedOrder[i], data, get_instance(db, request.instance)))

\* C5 amended: when an input breaks one or more rules, the clean phase
\* raises only the violation of the first broken rule in the order weight,
\* quantity limit, stocks, attributes, sku, preorder; the checks after it
\* are not evaluated.
C5_FirstViolationOnly ==
    Handled /\ BrokenRules(data) # {} =>
        LET first == Min(BrokenRules(data))
        IN  /\ last.stage = "clean_failed"
            /\ last.evaluated = SubSeq(ClaimedOrder, 1, first)
            /\ ErrKey(last.error) =
                   ErrKey(CheckError(ClaimedOrder[first], data,
                                     get_instance(db, request.instance)))

\* duplicate stock warehouses together with an attribute that is not
\* assignable: only the stocks error is reported
C5_Witness ==
    /\ Handled
    /\ RuleBroken("stocks", data)
    /\ data.product \in Products /\ OffendingIds(data) # {}
    /\ ErrKey(last.error) = <<"stocks", "UNIQUE">>

-----------------------------------------------------------------------------
(* C9: a null product reference.                                           *)

\* C9 as stated: with a null product the mutation fails with INVALID on
\* "product" before any other check runs, so that no other validation error
\* is returned in place of the product error.
C9_ProductCheckedFirst ==
    Handled /\ data.product = None =>
        /\ last.stage = "clean_failed"
        /\ ErrKey(last.error) = <<"product", "INVALID">>

\* C9 amended: with a null product the clean phase fails; the weight,
\* quantity-limit and duplicate-stock checks are evaluated first, and when
\* they pass the error is INVALID on "product" and neither the rest of
\* attribute validation nor the sku and preorder checks are evaluated; when
\* one of the three fails, its error is returned in place of the product
\* error.
C9_ProductCheckedAfterStocks ==
    Handled /\ data.product = None =>
        /\ last.stage = "clean_failed"
        /\ IF EarlierChecksPass(data)
           THEN /\ ErrKey(last.error) = <<"product", "INVALID">>
                /\ last.evaluated =
                       <<"weight", "quantity_limit", "stocks", "attributes">>
           ELSE /\ last.error.field \in
                       {"weight", "quantity_limit_per_customer", "stocks"}
                /\ "attributes" \notin Range(last.evaluated)

\* a null product with an ended preorder and an attribute submitted: the
\* product error is the one returned
C9_Witness ==
    /\ Handled
    /\ data.product = None
    /\ RuleBroken("preorder", data)
    /\ data.attributes # <<>>
    /\ ErrKey(last.error) = <<"product", "INVALID">>

-----------------------------------------------------------------------------
(* C7: attributes that are not variant attributes of the product type.     *)

\* C7: for every attribute list and product type, on a request whose
\* weight, quantity limit and stocks pass their checks: if some submitted id
\* is not in the variant-attribute set, the run fails with
\* ATTRIBUTE_CANNOT_BE_ASSIGNED and reports exactly the submitted ids minus
\* the set; if every submitted id is in the set, that error is not raised.
C7_OffendingIdsReported ==
    Handled /\ data.product \in Products /\ EarlierChecksPass(data) =>
        IF OffendingIds(data) # {}
        THEN /\ last.stage = "clean_failed"
             /\ last.error.code = "ATTRIBUTE_CANNOT_BE_ASSIGNED"
             /\ last.error.params = OffendingIds(data)
        ELSE last.error.code # "ATTRIBUTE_CANNOT_BE_ASSIGNED"

\* an allowed id submitted together with an offending one: the offending
\* one is reported, the allowed one is not
C7_Witness ==
    /\ Handled
    /\ data.product = "p1"
    /\ to_global_id("Attribute", 1) \in Range(data.attributes)
    /\ last.error.code = "ATTRIBUTE_CANNOT_BE_ASSIGNED"
    /\ last.error.params = {to_global_id("Attribute", 3)}

-----------------------------------------------------------------------------
(* C6: a product type without variants.                                    *)

\* C6 as stated: for a non-configurable product type, on a request whose
\* weight, quantity limit and stocks pass their checks, any non-empty
\* attribute list fails with INVALID whatever ids it holds, and an empty
\* one passes attribute validation.
C6_AnyAttributeInvalid ==
    /\ Handled
    /\ data.product \in Products /\ ~has_variants(data.product)
    /\ EarlierChecksPass(data)
    => IF data.attributes # <<>>
       THEN last.stage = "clean_failed" /\ last.error.code = "INVALID"
       ELSE "sku" \in Range(last.evaluated)

\* C6 amended: for a non-configurable product type, on such a request, a
\* non-empty attribute list whose ids are all variant attributes of the type
\* fails with INVALID; one with an id outside that set fails with
\* ATTRIBUTE_CANNOT_BE_ASSIGNED instead; an empty one passes attribute
\* validation, also when the type has value-required variant attributes.
C6_AllowedAttributeInvalid ==
    /\ Handled
    /\ data.product \in Products /\ ~has_variants(data.product)
    /\ EarlierChecksPass(data)
    => IF data.attributes = <<>>
       THEN "sku" \in Range(last.evaluated)
       ELSE /\ last.stage = "clean_failed"
            /\ IF OffendingIds(data) = {}
               THEN ErrKey(last.error) = <<NON_FIELD, "INVALID">>
               ELSE last.error.code = "ATTRIBUTE_CANNOT_BE_ASSIGNED"

\* a variant attribute of the non-configurable type is submitted
C6_Witness ==
    /\ Handled
    /\ ~has_variants(data.product) /\ value_required(data.product) # {}
    /\ data.attributes # <<>> /\ OffendingIds(data) = {}
    /\ ErrKey(last.error) = <<NON_FIELD, "INVALID">>

-----------------------------------------------------------------------------
(* C8: required attributes of a configurable product type.                 *)

RequiredAttributeMissing ==
    /\ Handled
    /\ data.product \in Products /\ has_variants(data.product)
    /\ value_required(data.product) # {}
    /\ data.attributes = <<>>
    /\ EarlierChecksPass(data)

-----------------------------------------------------------------------------
(* C4: a clean-phase failure has no side effects.                          *)

\* C4: whenever the request breaks a validation rule, clean_input raises
\* and the run ends there: the store (variant rows, default_variant,
\* search_index_dirty, stocks, attribute links) is unchanged, no event is
\* emitted and no channel is marked dirty.
C4_CleanFailureChangesNothing ==
    [][(BrokenRules(request.data) # {} \/ last'.stage = "clean_failed") =>
          /\ last'.stage = "clean_failed"
          /\ db' = db
          /\ events' = <<>>
          /\ dirty_channels' = dirty_channels]_vars

\* a request with duplicate stock warehouses has failed on a store that
\* holds a variant
C4_Witness ==
    /\ Handled
    /\ last.stage = "clean_failed"
    /\ ErrKey(last.error) = <<"stocks", "UNIQUE">>
    /\ Len(db.variants) = 1

-----------------------------------------------------------------------------
(* C1: the event of a run.                                                 *)

\* C1: a run that completes emits exactly one event, product_variant_created
\* when the instance had no pk before save and product_variant_updated when
\* it had one; no run emits both, and a run that fails in the clean phase
\* emits none.
C1_OneEventPerRun ==
    [][/\ last'.stage \in {"done", "post_failed"} =>
            /\ Len(events') = 1
            /\ events'[1][1] = IF request.instance = 0
                               THEN "product_variant_created"
                               ELSE "product_variant_updated"
            /\ events'[1][2] = last'.pk
       /\ Len(events') <= 1
       /\ last'.stage = "clean_failed" => events' = <<>>]_vars

\* an existing variant was saved and product_variant_updated emitted
C1_Witness ==
    /\ Handled
    /\ last.stage = "done"
    /\ request.instance # 0
    /\ events = << <<"product_variant_updated", request.instance>> >>

-----------------------------------------------------------------------------
(* C3, C10: what the persist phase commits.                                *)

\* every applicable write of save is in the store d1 reached from d0
Committed(d0, d1, req, pk) ==
    LET product == req.data.product
    IN  /\ pk \in DOMAIN d1.variants
        /\ d1.variants[pk].product = product
        /\ IF req.instance = 0
           THEN Len(d1.variants) = Len(d0.variants) + 1
           ELSE pk = req.instance /\ Len(d1.variants) = Len(d0.variants)
        /\ d0.default_variant[product] = 0 => d1.default_variant[product] = pk
        /\ \A i \in DOMAIN req.data.stocks : <<pk, req.data.stocks[i]>> \in d1.stocks
        /\ \A a \in Range(req.data.attributes) : <<pk, a>> \in d1.attribute_links
        /\ d1.variants[pk].name # <<>>
        /\ d1.search_index_dirty[product]

\* the run reaches the persist phase and a statement of the atomic block raises
PersistRaises(d0, req) ==
    /\ BrokenRules(req.data) = {}
    /\ \/ req.data.stocks # <<>> /\ Range(req.data.stocks) \ Warehouses # {}
       \/ req.fail_at \in {"variant", "search_index", "event"}
       \/ req.fail_at = "stocks" /\ req.data.stocks # <<>>
       \/ req.fail_at = "attributes" /\ req.data.attributes # <<>>
       \/ req.fail_at = "default_variant" /\ d0.default_variant[req.data.product] = 0

\* C3: if a statement of the atomic block of save raises (a warehouse that
\* cannot be resolved, a failure of the store), the run fails and the store
\* is as before: no variant row, default link, stock row, attribute link,
\* derived name or search_index_dirty flag of the run is visible, and no
\* event is emitted; if none raises, all the applicable ones are committed.
C3_PersistAllOrNothing ==
    [][/\ (PersistRaises(db, request) \/ last'.stage = "persist_failed") =>
            /\ last'.stage = "persist_failed"
            /\ db' = db
            /\ events' = <<>>
       /\ last'.stage \in {"done", "post_failed"} =>
            Committed(db, db', request, last'.pk)]_vars

\* the store failed on the search-index flag, after the variant row, the
\* default link, a stock row and an attribute link were written inside the
\* block: the store is still empty
C3_Witness ==
    /\ Handled
    /\ last.stage = "persist_failed"
    /\ request.fail_at = "search_index"
    /\ data.stocks # <<>> /\ data.attributes # <<>>
    /\ db = EmptyDb

\* C10: the channels are marked dirty only by a run whose atomic block has
\* completed, and a failure of post_save_action leaves everything save
\* committed in place: the writes of save stay in the store and the event
\* stays emitted.
C10_PostSaveKeepsCommit ==
    [][/\ dirty_channels' # dirty_channels =>
            last'.stage = "done" /\ Committed(db, db', request, last'.pk)
       /\ (request.fail_at = "post_save" /\ BrokenRules(request.data) = {}
             /\ Range(request.data.stocks) \subseteq Warehouses) =>
            /\ last'.stage = "post_failed"
            /\ Committed(db, db', request, last'.pk)
            /\ Len(events') = 1
            /\ dirty_channels' = dirty_channels]_vars

\* post_save_action failed after a new variant with a stock and an
\* attribute link was saved
C10_Witness ==
    /\ Handled
    /\ last.stage = "post_failed"
    /\ request.instance = 0
    /\ <<last.pk, "w1">> \in db.stocks
    /\ <<last.pk, A1>> \in db.attribute_links
    /\ db.default_variant[data.product] = last.pk
    /\ db.search_index_dirty[data.product]

-----------------------------------------------------------------------------
(* C2: the default variant of a product.                                   *)

\* C2: over any sequence of runs, a save for a product whose
\* default_variant is empty sets it to the saved variant, every other save
\* leaves default_variant as it is, a run that saves nothing leaves it as
\* it is, and so each product's default variant is the first variant ever
\* saved for it.
C2_DefaultIsFirstSaved ==
    [][/\ (runs' # runs /\ last'.stage \in {"done", "post_failed"}) =>
            LET pk == last'.pk
                product == db'.variants[pk].product
            IN  /\ db'.default_variant[product] =
                       IF db.default_variant[product] = 0
                       THEN pk ELSE db.default_variant[product]
                /\ \A q \in Products \ {product} :
                       db'.default_variant[q] = db.default_variant[q]
       /\ (runs' # runs /\ last'.stage \notin {"done", "post_failed"}) =>
            db'.default_variant = db.default_variant
       /\ db'.default_variant = first_saved']_vars

\* a second and a third variant of p1 were saved and the first is still
\* the default
C2_Witness ==
    /\ Len(db.variants) = 3
    /\ \A pk \in 1..3 : db.variants[pk].product = "p1"
    /\ db.default_variant["p1"] = 1
    /\ last.stage = "done" /\ last.pk = 3

====
